---- MODULE Spec2Model ----
(***************************************************************************)
(* The debug session engine of rna-common: the /ws/debug gateway           *)
(* (server/ws.py), the DebugSession stepping state machine                 *)
(* (utils/debug.py) and the pdb child process it drives through pipes.     *)
(*                                                                         *)
(* Every connection handler is a coroutine of one asyncio event loop.  A   *)
(* handler is modelled by its continuation k[c]: the instructions it still *)
(* has to execute.  An instruction is a pdb command to write ("cmd"), the  *)
(* blocking read of its answer ("read"), a websocket send ("send", an      *)
(* await), or a decision point of a source function ("ctl").  Only "send"  *)
(* and the empty continuation (await receive_text) give the loop away.     *)
(***************************************************************************)
EXTENDS Integers, Sequences, FiniteSets, TLC

\* ------------------------------------------------------------------ bounds
\* Inbound messages one client sends in Spec; clients sharing the event
\* loop in SpecLoop, and the messages they send between them; the deepest
\* call stack of the debugged program.
MaxMsgs == 4
NConn == 2
LoopMsgs == 3
MaxDepth == 3
\* In SpecState: the lines of the debugged program and the messages of its
\* one client.
MaxLine == 2
\* read-until: characters of a stream, characters of a marker
MaxStream == 4
MaxPattern == 2
\* the parser: lines of one raw text
MaxText == 3
\* the inspector: elements of a container, max_depth of a tree, locals
MaxElems == 3
MaxTreeDepth == 1
MaxVars == 2
\* the fan-out manager: calls of send_to, calls made on the manager directly
MaxSends == 2
MaxOps == 3
\* the agent endpoint: requests it receives
MaxTasks == 3
StateMsgs == 2

Conns == 1..NConn

\* ------------------------------------------------------- program constants
PDB_PROMPT == "(Pdb) "
CALL_PATTERN == "--Call--"
RETURN_PATTERN == "--Return--"
PROGRAM_FINISHED_PATTERN == "The program finished and will be restarted"

\* Stack positions as `w` prints them: the script's <module> frame is the
\* outermost user frame, the entry function main() is called from it.
ModuleDepth == 1
MainDepth == 2

StepCommands == {"step_over", "step_into", "step_out"}
MsgTypes == {"start_session", "restart", "explain_step", "bogus"} \cup StepCommands

\* Commands that resume the debuggee (they run user code before the prompt).
RunCmds == {"s", "n", "r", "c"}

VARIABLES
    conn,      \* conn[c]: "open" while debug_websocket's loop runs, else "closed"
    k,         \* k[c]: continuation of the handler of connection c
    req,       \* req[c]: type of the inbound message being (or last) handled
    out,       \* out[c]: messages sent to the client for that inbound message
    sess,      \* sess[c]: debug_websocket's local `session`
    dbg,       \* dbg[c]: the child process of the session created last by c
    orphans,   \* orphans[c]: live processes of c that no session will quit
    loc,       \* loc[c]: locals of the running DebugSession methods
    nsess,     \* nsess[c]: DebugSession objects constructed so far by c
    budget,    \* inbound messages the clients may still send
    code,      \* main.py as DebugSession reads it: its lines, those with user calls
    arg,       \* the input of the unit studied on its own (reader, parser, inspector)
    val        \* what that function has computed of it so far

vars == <<conn, k, req, out, sess, dbg, orphans, loc, nsess, budget, code, arg, val>>

\* --------------------------------------------------------------- records
Cmd(x) == [op |-> "cmd", a |-> x]
Rd(x) == [op |-> "read", a |-> x]
Ctl(x) == [op |-> "ctl", a |-> x]
Snd(x) == [op |-> "send", a |-> x]

NoSession == [id |-> 0, process |-> FALSE, hist |-> <<>>, ufc |-> {}]

NoProc ==
    [st |-> "none", depth |-> 0, ret |-> FALSE, exc |-> FALSE, gen |-> FALSE,
     up |-> 0, unread |-> 0, reads |-> 0, cmd |-> "", line |-> 0]

\* What one read hands back after parsing: the frame list (its length, the
\* 1-based index of the frame marked current, 0 when none, whether that
\* frame carries a retval, and its line), the control marker, and the
\* evaluated text.
NoObs == [n |-> 0, cur |-> 0, ret |-> FALSE, line |-> 0, mk |-> "", txt |-> ""]

\* ncall (call events the capture loop has seen), at0 (where the debuggee
\* stood when the loop began), h0 (the length of the history when the
\* request arrived), sawFin, wrote and raised observe the run; the code has
\* no such variables.
Locals ==
    [fr |-> [n |-> 0, cur |-> 0, ret |-> FALSE, line |-> 0],
     mk |-> "", txt |-> "",
     state |-> [ret |-> FALSE, main |-> FALSE, into |-> FALSE, outof |-> FALSE],
     ufc |-> {},
     aret |-> FALSE, amain |-> FALSE,
     initn |-> 0, iter |-> 0, calls |-> <<>>,
     ncall |-> 0, at0 |-> [depth |-> 0, ret |-> FALSE], h0 |-> 0,
     sawFin |-> FALSE, wrote |-> FALSE, raised |-> FALSE]

\* ------------------------------------------------------------- event loop
\* A handler between two awaits keeps the loop's only thread.
Holding(c) == k[c] # <<>> /\ Head(k[c]).op # "send"

LoopFree(c) == \A d \in Conns \ {c} : ~Holding(d)

At(c, o) == conn[c] = "open" /\ k[c] # <<>> /\ Head(k[c]).op = o /\ LoopFree(c)

AtCtl(c, x) == At(c, "ctl") /\ Head(k[c]).a = x

\* n clients have connected (websocket.accept) and may send b messages.
Accepted(n, b) ==
    /\ conn = [c \in Conns |-> IF c <= n THEN "open" ELSE "closed"]
    /\ k = [c \in Conns |-> <<>>]
    /\ req = [c \in Conns |-> "none"]
    /\ out = [c \in Conns |-> <<>>]
    /\ sess = [c \in Conns |-> NoSession]
    /\ dbg = [c \in Conns |-> NoProc]
    /\ orphans = [c \in Conns |-> 0]
    /\ loc = [c \in Conns |-> Locals]
    /\ nsess = [c \in Conns |-> 0]
    /\ budget = b

\* A program of which only the stack matters: one line, no user call on it.
OneLine == [lines |-> 1, calls |-> {}]

\* The programs of MaxLine lines, by the lines get_function_calls finds.
Programs == {[lines |-> MaxLine, calls |-> S] : S \in SUBSET (1..MaxLine)}

\* No function is being applied on its own.
NoCall == arg = <<>> /\ val = <<>>

Init == Accepted(1, MaxMsgs) /\ code = OneLine /\ NoCall

InitLoop == Accepted(NConn, LoopMsgs) /\ code = OneLine /\ NoCall

InitState == Accepted(1, StateMsgs) /\ code \in Programs /\ NoCall

\* Nobody is connected: a function of the session is applied on its own.
NoClient == Accepted(0, 0) /\ code = OneLine

Gateway == <<conn, k, req, out, sess, dbg, orphans, loc, nsess, budget, code>>

\* An exception nobody catches below debug_websocket: its `except Exception`
\* logs it and the handler returns, which closes the connection.
Raise(c) ==
    /\ conn' = [conn EXCEPT ![c] = "closed"]
    /\ k' = [k EXCEPT ![c] = <<>>]
    /\ loc' = [loc EXCEPT ![c] = [Locals EXCEPT !.raised = TRUE,
                                                !.h0 = loc[c].h0,
                                                !.sawFin = loc[c].sawFin,
                                                !.wrote = loc[c].wrote]]

\* ---------------------------------------------------------- the debuggee
Min(a, b) == IF a < b THEN a ELSE b

AtLine(d, depth) == [d EXCEPT !.depth = depth, !.ret = FALSE, !.exc = FALSE, !.gen = FALSE, !.up = 0]

\* The frame list a stack trace of debuggee state d parses to.
Frames(d) ==
    [n |-> d.depth, cur |-> d.depth - d.up, ret |-> d.ret /\ d.up = 0, line |-> d.line]

\* The single frame pdb prints when it stops after a resuming command.
StopFrame(d) == [n |-> 1, cur |-> 1, ret |-> d.ret, line |-> d.line]

Obs(fr, mk, txt) ==
    [n |-> fr.n, cur |-> fr.cur, ret |-> fr.ret, line |-> fr.line, mk |-> mk, txt |-> txt]

Stop(d, mk) == [d |-> d, o |-> Obs(StopFrame(d), mk, "")]

\* Where the debuggee may stop next, by pdb's event model (call, line,
\* return, exception), for a program the model does not fix.
LineStops(d, depth) ==
    { Stop(AtLine(d, depth), ""),
      Stop([AtLine(d, depth) EXCEPT !.ret = TRUE], RETURN_PATTERN),
      Stop([AtLine(d, depth) EXCEPT !.exc = TRUE], "") }

CallStops(d, depth) ==
    IF depth > MaxDepth THEN {}
    ELSE { Stop([AtLine(d, depth) EXCEPT !.gen = g], CALL_PATTERN) : g \in BOOLEAN }

Restarted(d) == Stop(AtLine(d, ModuleDepth), PROGRAM_FINISHED_PATTERN)

\* The frame control goes back to when the current one is left.
Caller(d) == d.depth - 1

Responses(cmd, d) ==
    CASE cmd = "s" ->
            IF ~d.ret THEN LineStops(d, d.depth) \cup CallStops(d, d.depth + 1)
            ELSE IF d.depth = ModuleDepth THEN {Restarted(d)}
            ELSE LineStops(d, Caller(d)) \cup CallStops(d, d.depth)
      [] cmd = "n" ->
            IF d.up = 1 THEN LineStops(d, Caller(d))
            ELSE IF ~d.ret THEN LineStops(d, d.depth)
            ELSE IF d.depth = ModuleDepth THEN {Restarted(d)}
            ELSE LineStops(d, Caller(d))
      [] cmd = "r" ->
            IF ~d.ret THEN {Stop([AtLine(d, d.depth) EXCEPT !.ret = TRUE], RETURN_PATTERN)}
            ELSE IF d.depth = ModuleDepth THEN {Restarted(d)}
            ELSE { Stop(AtLine(d, Caller(d)), ""),
                   Stop([AtLine(d, Caller(d)) EXCEPT !.ret = TRUE], RETURN_PATTERN) }
      [] cmd = "c" ->
            {Stop(AtLine(d, MainDepth), ""), Restarted(d)}
      [] cmd = "init" ->
            {Stop(AtLine(d, ModuleDepth), "")}
      [] cmd = "w" -> {[d |-> d, o |-> Obs(Frames(d), "", "")]}
      [] cmd = "up" ->
            {[d |-> [d EXCEPT !.up = IF d.depth > ModuleDepth THEN 1 ELSE 0],
              o |-> Obs(StopFrame(d), "", "")]}
      [] cmd = "p_exc" ->
            {[d |-> d, o |-> [NoObs EXCEPT !.txt = IF d.exc THEN "value" ELSE "*** NameError"]]}
      [] cmd = "p_flags" ->
            {[d |-> d, o |-> [NoObs EXCEPT !.txt = IF d.gen THEN "32" ELSE "0"]]}
      [] OTHER -> {[d |-> d, o |-> [NoObs EXCEPT !.txt = "text"]]}

\* The stream closes before the prompt: the read returns what it has (nothing).
Exited(d) == [NoProc EXCEPT !.st = "exited", !.cmd = d.cmd]

Eof(d) == [d |-> Exited(d), o |-> NoObs]

\* ------------------------------------------------- the process bridge
\* pdb_next .. pdb_continue call ensure_process_is_running before they write;
\* _inject_build_var_tree and _finish write without the check.
Ensured == {"n", "s", "r", "w", "up", "l", "p_exc", "p_locals", "p_flags", "b", "c"}

\* A bridge whose pdb_up would not read the answer of `up`.
Unread_noReadAfterUp == {"q", "up"}

\* Commands whose answer is not read: _finish waits for the exit instead.
Unread == {"q"}

Go(c, seq) == k' = [k EXCEPT ![c] = seq \o Tail(k[c])]

\* A start that would fail without telling the client.
start_failed_silent == <<Ctl("return_none")>>

\* handle_start_session when the file is missing or DebugSession() raised:
\* send the error, return None.
start_failed == <<Snd("error"), Ctl("return_none")>>

\* One command line written to the child's stdin (write + flush).
Write(c) ==
    /\ At(c, "cmd")
    /\ UNCHANGED <<req, out, sess, orphans, nsess, budget, code, arg, val>>
    /\ LET x == Head(k[c]).a
           d == dbg[c]
       IN IF d.st = "exited" /\ x \in Ensured
            THEN \* ensure_process_is_running: Exception("Program finished")
                 Raise(c) /\ UNCHANGED dbg
          ELSE IF d.st = "exited" /\ x = "inject"
            THEN \* BrokenPipeError inside DebugSession(): caught by handle_start_session
                 /\ Go(c, start_failed)
                 /\ UNCHANGED <<conn, dbg, loc>>
          ELSE IF d.st = "exited" /\ req[c] = "restart"
            THEN \* BrokenPipeError inside _finish: `except Exception: pass`
                 /\ k' = [k EXCEPT ![c] = Tail(Tail(k[c]))]
                 /\ UNCHANGED <<conn, dbg, loc>>
          ELSE IF d.st = "exited"
            THEN Raise(c) /\ UNCHANGED dbg
          ELSE /\ dbg' = [dbg EXCEPT ![c].unread = Min(d.unread + 1, 2),
                                     ![c].reads = 0,
                                     ![c].cmd = x]
               /\ loc' = [loc EXCEPT ![c].wrote = TRUE]
               /\ Go(c, IF x \in Unread THEN <<>> ELSE <<Rd(x)>>)
               /\ UNCHANGED conn

\* What the caller of the primitive keeps of a read.
Keep(l, x, o) ==
    [l EXCEPT !.fr = IF x \in {"w", "r"}
                       THEN [n |-> o.n, cur |-> o.cur, ret |-> o.ret, line |-> o.line]
                       ELSE @,
              !.mk = IF x \in RunCmds THEN o.mk ELSE @,
              !.txt = IF x \in {"p_exc", "p_flags", "p_locals"} THEN o.txt ELSE @,
              !.ncall = IF x = "s" /\ o.mk = CALL_PATTERN THEN Min(@ + 1, 3) ELSE @,
              !.sawFin = @ \/ (o.mk = PROGRAM_FINISHED_PATTERN)]

\* The lines the debuggee may stand on once command x is answered: any line
\* of the program after a command that ran it, the same line otherwise.
StopLines(x, d) ==
    IF d.st # "alive" THEN {0}
    ELSE IF x \in RunCmds \cup {"init"} THEN 1..code.lines
    ELSE {d.line}

\* _read_user_and_pdb_output: blocks until the prompt (or end of stream).
Read(c) ==
    /\ At(c, "read")
    /\ dbg[c].st = "alive"
    /\ UNCHANGED <<conn, req, out, sess, orphans, nsess, budget, code, arg, val>>
    /\ LET x == Head(k[c]).a
       IN \E r \in Responses(x, dbg[c]) \cup {Eof(dbg[c])} :
            \E at \in StopLines(x, r.d) :
                /\ dbg' = [dbg EXCEPT ![c] = [r.d EXCEPT !.unread = IF @ > 0 THEN @ - 1 ELSE 0,
                                                         !.reads = Min(@ + 1, 2),
                                                         !.line = at]]
                /\ loc' = [loc EXCEPT ![c] = Keep(@, x, [r.o EXCEPT !.line = IF @ = 0 THEN 0 ELSE at])]
                /\ Go(c, <<>>)

\* The debuggee runs on without ever reaching a prompt (an endless loop):
\* read(1) never returns.
Hang(c) ==
    /\ At(c, "read")
    /\ Head(k[c]).a \in RunCmds
    /\ dbg[c].st = "alive"
    /\ dbg' = [dbg EXCEPT ![c].st = "hung"]
    /\ UNCHANGED <<conn, k, req, out, sess, orphans, loc, nsess, budget, code, arg, val>>

\* process.wait(); self.process = None; self.code = None
_finish_wait(c) ==
    /\ AtCtl(c, "wait")
    /\ dbg[c].st = "alive"
    /\ dbg' = [dbg EXCEPT ![c] = Exited(@)]
    /\ sess' = [sess EXCEPT ![c].process = FALSE]
    /\ Go(c, <<>>)
    /\ UNCHANGED <<conn, req, out, orphans, loc, nsess, budget, code, arg, val>>

_finish == <<Cmd("q"), Ctl("wait")>>

\* ------------------------------------------------ DebugSession, by method
get_current_frame == <<Cmd("w"), Cmd("p_locals"), Ctl("get_current_frame")>>

\* frame = get_current_frame(), then can_step_into() and can_step_out(), each
\* of which asks for the current frame again.
get_state ==
    get_current_frame \o <<Ctl("get_state")>>
        \o get_current_frame \o <<Ctl("can_step_into")>>
        \o get_current_frame \o <<Ctl("can_step_out")>>

\* A capture loop that does not finish the function it stepped into.
pdb_return_skipped == <<>>

pdb_return == <<Cmd("r"), Ctl("pdb_return")>>

\* A capture loop that does not look at the exception slot after its step.
_step_over_and_capture_calls_unchecked ==
    <<Cmd("w"), Ctl("initial_frames"), Cmd("s"), Cmd("w"), Ctl("new_frames")>>

_step_over_and_capture_calls ==
    <<Cmd("w"), Ctl("initial_frames"), Cmd("s"), Cmd("p_exc"), Ctl("is_exception_raised")>>

_step_over_and_capture_delta ==
    <<Cmd("l")>> \o get_current_frame \o _step_over_and_capture_calls
        \o <<Ctl("_step_over_and_capture_delta")>>

_store_step_info(kind) == get_current_frame \o <<Ctl(kind)>>

step_into == <<Cmd("w"), Ctl("initial_frame_count"), Cmd("s"), Cmd("w"), Ctl("new_frame_count")>>

step_out == pdb_return \o _step_over_and_capture_delta \o _store_step_info("step_out")

step_over == get_state \o <<Ctl("is_already_returning")>>

Pop(c) == Go(c, <<>>)

Quiet == UNCHANGED <<conn, req, out, sess, dbg, orphans, nsess, budget, code, arg, val>>

\* for frame in frames: if frame.get("is_current") ... raise "No current frame found"
get_current_frame_end(c) ==
    /\ AtCtl(c, "get_current_frame")
    /\ UNCHANGED <<req, out, sess, dbg, orphans, nsess, budget, code, arg, val>>
    /\ IF loc[c].fr.cur = 0 THEN Raise(c)
       ELSE Pop(c) /\ UNCHANGED <<conn, loc>>

\* state = {..., "is_returning": "retval" in frame, "is_in_main": function.startswith("main(")}
\* function_name.startswith("main(")
in_main(fr) == fr.cur = MainDepth

\* A can_step_out that does not look at the frame.
can_step_out_always(fr) == TRUE

\* return not function_name.startswith("main(")
can_step_out(fr) == ~in_main(fr)

\* return line_number in self.user_defined_function_calls
can_step_into(fr, ufc) == fr.line \in ufc

\* The DebugSession at work: handle_start_session's own until it returns it.
user_defined_function_calls(c) ==
    IF req[c] \in {"start_session", "restart"} THEN loc[c].ufc ELSE sess[c].ufc

get_state_end(c) ==
    /\ At(c, "ctl")
    /\ LET x == Head(k[c]).a
           fr == loc[c].fr
       IN \/ /\ x = "get_state"
             /\ loc' = [loc EXCEPT ![c].state.ret = fr.ret, ![c].state.main = in_main(fr)]
          \/ /\ x = "can_step_into"
             /\ loc' = [loc EXCEPT ![c].state.into =
                                    can_step_into(fr, user_defined_function_calls(c))]
          \/ /\ x = "can_step_out"
             /\ loc' = [loc EXCEPT ![c].state.outof = can_step_out(fr)]
    /\ Pop(c)
    /\ Quiet

\* the frame marked current must carry a retval
pdb_return_end(c) ==
    /\ AtCtl(c, "pdb_return")
    /\ UNCHANGED <<req, out, sess, dbg, orphans, nsess, budget, code, arg, val>>
    /\ IF loc[c].fr.cur = 0 \/ ~loc[c].fr.ret THEN Raise(c)
       ELSE Pop(c) /\ UNCHANGED <<conn, loc>>

\* if is_in_generator: self.pdb_up(); self.pdb_next(); break
generator_exit == <<Cmd("up"), Cmd("n")>>

capture_calls_loop(c) ==
    /\ At(c, "ctl")
    /\ LET x == Head(k[c]).a
           l == loc[c]
       IN \/ /\ x = "initial_frames"
             /\ UNCHANGED <<req, out, sess, dbg, orphans, nsess, budget, code, arg, val>>
             /\ IF l.fr.n = 0 /\ l.iter = 0
                  THEN Raise(c)   \* idx is unbound: UnboundLocalError
                  ELSE /\ loc' = [loc EXCEPT ![c].initn =
                                    IF l.fr.n = 0 THEN 0
                                    ELSE IF l.fr.cur > 0 THEN l.fr.cur ELSE l.fr.n,
                                                 ![c].at0 =
                                    IF l.iter = 0
                                      THEN [depth |-> dbg[c].depth, ret |-> dbg[c].ret]
                                      ELSE @]
                       /\ Pop(c)
                       /\ UNCHANGED conn
          \/ /\ x = "is_exception_raised"
             /\ Go(c, IF l.txt # "*** NameError"
                        THEN <<Cmd("p_exc"), Cmd("w"), Ctl("_capture_exception_info")>>
                        ELSE <<Cmd("w"), Ctl("new_frames")>>)
             /\ UNCHANGED loc /\ Quiet
          \/ /\ x = "_capture_exception_info"
             /\ loc' = [loc EXCEPT ![c].calls = Append(@, "exception")]
             /\ Pop(c) /\ Quiet
          \/ /\ x = "new_frames"
             /\ Go(c, IF l.fr.n > l.initn
                        THEN <<Cmd("p_locals"), Cmd("p_flags"), Ctl("_is_in_generator_function")>>
                        ELSE <<>>)
             /\ UNCHANGED loc /\ Quiet
          \/ /\ x = "_is_in_generator_function"
             /\ Go(c, IF l.txt # "0"
                        THEN generator_exit
                        ELSE pdb_return \o <<Ctl("captured_calls")>>)
             /\ UNCHANGED loc /\ Quiet
          \/ /\ x = "captured_calls"
             /\ loc' = [loc EXCEPT ![c].calls = Append(@, "call"), ![c].iter = Min(@ + 1, 2)]
             /\ Go(c, _step_over_and_capture_calls)
             /\ Quiet

\* if PROGRAM_FINISHED_PATTERN in pdb_output: raise RuntimeError
capture_delta_end(c) ==
    /\ AtCtl(c, "_step_over_and_capture_delta")
    /\ UNCHANGED <<req, out, sess, dbg, orphans, nsess, budget, code, arg, val>>
    /\ IF loc[c].mk = PROGRAM_FINISHED_PATTERN THEN Raise(c)
       ELSE Pop(c) /\ UNCHANGED <<conn, loc>>

\* An entry stored without its delta.
Entry_without_delta(kind, l) ==
    [kind |-> kind, delta |-> FALSE, expl |-> FALSE]

Entry(kind, l) ==
    [kind |-> kind, delta |-> kind # "step_into", expl |-> FALSE]

\* self.execution_history.append(entry)
store_step_info(c) ==
    /\ At(c, "ctl")
    /\ \E kind \in StepCommands :
         /\ Head(k[c]).a = kind
         /\ sess' = [sess EXCEPT ![c].hist = Append(@, Entry(kind, loc[c]))]
    /\ loc' = [loc EXCEPT ![c].calls = <<>>, ![c].iter = 0,
                           ![c].ncall = 0, ![c].at0 = Locals.at0]
    /\ Pop(c)
    /\ UNCHANGED <<conn, req, out, dbg, orphans, nsess, budget, code, arg, val>>

Delta(kind) == _step_over_and_capture_delta \o _store_step_info(kind)

step_over_branch(c) ==
    /\ At(c, "ctl")
    /\ LET x == Head(k[c]).a
           l == loc[c]
       IN \/ /\ x = "is_already_returning"
             /\ loc' = [loc EXCEPT ![c].aret = l.state.ret, ![c].amain = l.state.main]
             /\ Go(c, IF l.state.ret /\ l.state.main
                        THEN _finish
                        ELSE Delta("step_over") \o get_state \o <<Ctl("is_returning")>>)
          \/ /\ x = "is_returning"
             /\ UNCHANGED loc
             /\ Go(c, IF l.state.ret /\ l.state.main
                        THEN <<Cmd("c")>> \o _finish
                      ELSE IF ~l.aret /\ l.state.ret
                        THEN Delta("step_over")
                      ELSE <<>>)
    /\ Quiet

step_into_branch(c) ==
    /\ At(c, "ctl")
    /\ UNCHANGED <<req, out, sess, dbg, orphans, nsess, budget, code, arg, val>>
    /\ LET x == Head(k[c]).a
           l == loc[c]
       IN \/ /\ x = "initial_frame_count"
             /\ loc' = [loc EXCEPT ![c].initn = l.fr.n]
             /\ Pop(c) /\ UNCHANGED conn
          \/ /\ x = "new_frame_count"
             /\ Go(c, IF l.fr.n > l.initn
                        THEN <<Cmd("n"), Ctl("step_into_finished")>>
                        ELSE <<Ctl("step_into_finished")>>)
             /\ UNCHANGED <<conn, loc>>
          \/ /\ x = "step_into_finished"
             /\ IF l.mk = PROGRAM_FINISHED_PATTERN THEN Raise(c)
                ELSE /\ Go(c, _store_step_info("step_into"))
                     /\ UNCHANGED <<conn, loc>>

\* ------------------------------------------------------- the gateway
Msg(c, t) ==
    [t |-> t,
     ret |-> t = "state" /\ loc[c].state.ret,
     main |-> t = "state" /\ loc[c].state.main,
     into |-> t = "state" /\ loc[c].state.into,
     outof |-> t = "state" /\ loc[c].state.outof,
     he |-> t = "state" /\ req[c] \in {"step_out", "step_over"}]

\* await websocket.send_text(...): the message reaches the client
send_text(c) ==
    /\ At(c, "send")
    /\ out' = [out EXCEPT ![c] = Append(@, Msg(c, Head(k[c]).a))]
    /\ Pop(c)
    /\ UNCHANGED <<conn, req, sess, dbg, orphans, loc, nsess, budget, code, arg, val>>

Command(m) ==
    CASE m = "step_over" -> step_over
      [] m = "step_into" -> step_into
      [] m = "step_out" -> step_out

\* A step handler without the is_finished check.
_handle_simple_command_unchecked(s, m) ==
    Command(m) \o <<Ctl("_handle_simple_command")>>

_handle_simple_command(s, m) ==
    IF ~s.process THEN <<Snd("error")>>
    ELSE Command(m) \o <<Ctl("_handle_simple_command")>>

handle_explain_step(s) ==
    IF ~s.process THEN <<Snd("error")>> ELSE <<Ctl("explain_step")>>

handle_start_session == <<Ctl("handle_start_session")>>

\* A dispatch whose restart starts the new session without finishing the old.
Dispatch_noFinish(s, m) ==
    CASE m \in {"start_session", "restart"} ->
            handle_start_session
                \o (IF m = "restart" THEN <<Snd("restart_complete")>> ELSE <<>>)
      [] m \in StepCommands -> _handle_simple_command(s, m)
      [] m = "explain_step" -> handle_explain_step(s)
      [] OTHER -> <<Snd("error")>>

\* One iteration of debug_websocket's loop, from receive_text to its dispatch.
Dispatch(s, m) ==
    CASE m = "start_session" -> handle_start_session
      [] m = "restart" ->
            (IF s.id # 0 /\ s.process THEN _finish ELSE <<>>)
                \o handle_start_session \o <<Snd("restart_complete")>>
      [] m \in StepCommands -> _handle_simple_command(s, m)
      [] m = "explain_step" -> handle_explain_step(s)
      [] OTHER -> <<Snd("error")>>

debug_websocket(c) ==
    /\ conn[c] = "open"
    /\ k[c] = <<>>
    /\ LoopFree(c)
    /\ budget > 0
    /\ budget' = budget - 1
    /\ out' = [out EXCEPT ![c] = <<>>]
    /\ UNCHANGED <<sess, dbg, orphans, nsess, code, arg, val>>
    /\ \E m \in MsgTypes :
         /\ req' = [req EXCEPT ![c] = m]
         /\ IF m \notin {"start_session", "restart"} /\ sess[c].id = 0
              THEN \* raise RuntimeError("No active debug session")
                   /\ conn' = [conn EXCEPT ![c] = "closed"]
                   /\ k' = [k EXCEPT ![c] = <<>>]
                   /\ loc' = [loc EXCEPT ![c] = [Locals EXCEPT !.raised = TRUE]]
              ELSE /\ k' = [k EXCEPT ![c] = Dispatch(sess[c], m) \o <<Ctl("continue")>>]
                   /\ loc' = [loc EXCEPT ![c] = [Locals EXCEPT !.h0 = Len(sess[c].hist)]]
                   /\ UNCHANGED conn

\* the loop goes back to receive_text; the locals of the handler are gone
debug_websocket_continue(c) ==
    /\ AtCtl(c, "continue")
    /\ loc' = [loc EXCEPT ![c] = [Locals EXCEPT !.h0 = loc[c].h0,
                                                !.sawFin = loc[c].sawFin,
                                                !.wrote = loc[c].wrote]]
    /\ Pop(c)
    /\ Quiet

NewProcess == [NoProc EXCEPT !.st = "alive"]

Live(d) == d.st \in {"alive", "hung"}

\* DebugSession(container_name), then session_started, b main, c, the state
start_session_body ==
    <<Rd("init"), Cmd("inject"), Snd("session_started"), Cmd("b"), Cmd("c")>>
        \o get_state \o <<Snd("state"), Ctl("return_session")>>

handle_start_session_step(c) ==
    /\ At(c, "ctl")
    /\ UNCHANGED <<req, out, budget, code, arg, val>>
    /\ LET x == Head(k[c]).a
       IN \/ /\ x = "handle_start_session"
             /\ \E made \in {"no_file", "spawn_error", "process"} :
                  IF made = "process"
                    THEN /\ orphans' = [orphans EXCEPT ![c] = @ + IF Live(dbg[c]) THEN 1 ELSE 0]
                         /\ dbg' = [dbg EXCEPT ![c] = NewProcess]
                         /\ nsess' = [nsess EXCEPT ![c] = @ + 1]
                         /\ loc' = [loc EXCEPT ![c].ufc = code.calls]
                         /\ Go(c, start_session_body)
                    ELSE /\ Go(c, start_failed)
                         /\ UNCHANGED <<orphans, dbg, nsess, loc>>
             /\ UNCHANGED <<conn, sess>>
          \/ /\ x = "return_none"   \* if not session: break
             /\ conn' = [conn EXCEPT ![c] = "closed"]
             /\ k' = [k EXCEPT ![c] = <<>>]
             /\ UNCHANGED <<sess, dbg, orphans, loc, nsess>>
          \/ /\ x = "return_session"
             /\ sess' = [sess EXCEPT ![c] = [id |-> nsess[c], process |-> TRUE, hist |-> <<>>,
                                             ufc |-> loc[c].ufc]]
             /\ Pop(c)
             /\ UNCHANGED <<conn, dbg, orphans, loc, nsess>>

\* after getattr(session, command)(): finished or the state
handle_simple_command_reply(c) ==
    /\ AtCtl(c, "_handle_simple_command")
    /\ Go(c, IF ~sess[c].process THEN <<Snd("finished")>> ELSE get_state \o <<Snd("state")>>)
    /\ UNCHANGED loc
    /\ Quiet

explain_step(c) ==
    /\ AtCtl(c, "explain_step")
    /\ UNCHANGED <<conn, req, out, dbg, orphans, loc, nsess, budget, code, arg, val>>
    /\ LET h == sess[c].hist
       IN IF h = <<>> \/ ~h[Len(h)].delta
            THEN Go(c, <<Snd("error")>>) /\ UNCHANGED sess
            ELSE \E answered \in BOOLEAN :
                   IF answered
                     THEN /\ sess' = [sess EXCEPT ![c].hist[Len(h)].expl = TRUE]
                          /\ Go(c, <<Snd("explanation")>>)
                     ELSE Go(c, <<Snd("error")>>) /\ UNCHANGED sess

Next ==
    \E c \in Conns :
        \/ debug_websocket(c)
        \/ debug_websocket_continue(c)
        \/ handle_start_session_step(c)
        \/ handle_simple_command_reply(c)
        \/ explain_step(c)
        \/ send_text(c)
        \/ Write(c)
        \/ Read(c)
        \/ Hang(c)
        \/ _finish_wait(c)
        \/ get_current_frame_end(c)
        \/ get_state_end(c)
        \/ pdb_return_end(c)
        \/ capture_calls_loop(c)
        \/ capture_delta_end(c)
        \/ store_step_info(c)
        \/ step_over_branch(c)
        \/ step_into_branch(c)

\* One client and its debug sessions.
Spec == Init /\ [][Next]_vars

\* Several clients served by the same event loop.
SpecLoop == InitLoop /\ [][Next]_vars

\* One client debugging a program of several lines.
SpecState == InitState /\ [][Next]_vars

\* The event loop runs a handler that can run, and a child that answers is
\* read: whenever some step is possible, one is taken.
FairSpec == Spec /\ WF_vars(Next)

\* ----------------------------------------------------------------- claims
Types(ms) == [i \in 1..Len(ms) |-> ms[i].t]

\* The inbound message of c has been dealt with: the loop is back at
\* receive_text, or the handler has returned.
Done(c) == req[c] # "none" /\ k[c] = <<>>

Finished(c) == sess[c].id # 0 /\ ~sess[c].process

\* C1: on every process, a command line is written only when exactly one
\* read-until-prompt has completed since the previous write (or since the
\* process was spawned, whose banner the constructor reads first): no second
\* command is written while the read for the previous one is outstanding.
C1_SingleOutstandingRequest ==
    [][\A c \in Conns :
         dbg'[c].unread > dbg[c].unread => dbg[c].unread = 0 /\ dbg[c].reads = 1]_vars

\* step_over's generator branch has written `up`, read its answer and written `n`.
C1_Witness ==
    \E c \in Conns : dbg[c].cmd = "n" /\ dbg[c].up = 1 /\ dbg[c].unread = 1

\* C2: at most one debuggee process created by a connection is live at any
\* time; a new session never leaves an earlier one unfinished.
C2_AtMostOneLiveProcess ==
    \A c \in Conns : orphans[c] + (IF Live(dbg[c]) THEN 1 ELSE 0) <= 1

\* C3: a finished session stays finished, keeps its history and has no
\* command written to its process (dbg[c] is that process as long as no
\* later session was constructed); a step or explain request handled while
\* the connection's session is finished is answered by exactly one error.
C3_FinishedIsTerminal ==
    /\ [](\A c \in Conns :
            (Done(c) /\ Finished(c) /\ ~loc[c].wrote
                /\ req[c] \in StepCommands \cup {"explain_step"})
            => Types(out[c]) = <<"error">> /\ conn[c] = "open")
    /\ [][\A c \in Conns :
            Finished(c) =>
                /\ sess[c].id = nsess'[c] => dbg'[c].unread <= dbg[c].unread
                /\ sess'[c].id = sess[c].id =>
                     ~sess'[c].process /\ sess'[c].hist = sess[c].hist]_vars

\* A step request on a session that an earlier step_over finished got its error.
C3_Witness ==
    \E c \in Conns :
        /\ Done(c) /\ Finished(c) /\ ~loc[c].wrote
        /\ req[c] \in StepCommands
        /\ sess[c].hist # <<>>
        /\ Types(out[c]) = <<"error">>

\* C4: when a read during step_over, step_into or step_out carried the
\* program-finished marker, the session is torn down by the end of the
\* request: quit sent, process exited and released.  (Stated for a debuggee
\* that did not close its stream by itself.)
C4_FinishedMarkerTearsDown ==
    \A c \in Conns :
        (Done(c) /\ req[c] \in StepCommands /\ loc[c].sawFin
            /\ (Live(dbg[c]) \/ dbg[c].cmd = "q"))
        => ~sess[c].process /\ dbg[c].st = "exited" /\ dbg[c].cmd = "q"

\* C5: no state message answering a step_over has is_returning and
\* is_in_main both true (such a step_over finishes the session instead).
\* (Stated for a debuggee that is still running when the reply is sent.)
C5_NoReturningMainState ==
    \A c \in Conns :
        (req[c] = "step_over" /\ Live(dbg[c])) =>
            \A i \in 1..Len(out[c]) :
                out[c][i].t = "state" => ~(out[c][i].ret /\ out[c][i].main)

\* C6: whenever step_over sends quit, the command it sent just before was continue.
C6_ContinueBeforeQuit ==
    [][\A c \in Conns :
         (req[c] = "step_over" /\ dbg'[c].cmd = "q" /\ dbg[c].cmd # "q")
         => dbg[c].cmd = "c"]_vars

\* C7: a message that is neither start_session nor restart, arriving when
\* no session exists or being of no known type, gets exactly one error and
\* leaves the connection's loop running.
C7_ErrorAndLoopContinues ==
    \A c \in Conns :
        (Done(c) /\ req[c] \notin {"start_session", "restart"}
            /\ (sess[c].id = 0 \/ req[c] = "bogus"))
        => Types(out[c]) = <<"error">> /\ conn[c] = "open"

\* C8: during a restart the new process is created only when the previous
\* one is no longer live (quit written, exit awaited, session released); the
\* replies are a prefix of session_started, state, restart_complete, all
\* three once the restart is through, and restart_complete never follows a
\* failed start.
C8_RestartOrder ==
    /\ [](\A c \in Conns :
            req[c] = "restart" =>
                /\ Types(out[c]) \in
                     {<<>>, <<"error">>, <<"session_started">>,
                      <<"session_started", "state">>,
                      <<"session_started", "state", "restart_complete">>}
                /\ (Done(c) /\ conn[c] = "open")
                     => Types(out[c]) = <<"session_started", "state", "restart_complete">>)
    /\ [][\A c \in Conns :
            (req[c] = "restart" /\ nsess'[c] > nsess[c]) =>
                /\ ~Live(dbg[c])
                /\ orphans'[c] = orphans[c]
                /\ loc[c].wrote => dbg[c].cmd = "q" /\ ~sess[c].process]_vars

\* A restart replaced a live session and was acknowledged.
C8_Witness ==
    \E c \in Conns :
        /\ req[c] = "restart" /\ nsess[c] = 2 /\ loc[c].wrote /\ sess[c].id = 2
        /\ Types(out[c]) = <<"session_started", "state", "restart_complete">>

\* C9: every failure raised while an inbound message is processed leads to
\* at least one message to the client for that request.  (Stated for
\* requests on a connection that has a session, C7 covering the others, and
\* for failures other than the debuggee's stream closing.)
C9_NoSilentFailure ==
    \A c \in Conns :
        (Done(c) /\ loc[c].raised /\ sess[c].id # 0 /\ Live(dbg[c]))
        => Len(out[c]) >= 1

\* A read that will never return: the debuggee loops without a prompt.
Blocked(c) == k[c] # <<>> /\ Head(k[c]).op = "read" /\ dbg[c].st = "hung"

\* C10: while one connection's session is blocked in a read, another
\* connection with a message to receive or a reply to send can go on.
C10_OtherConnectionsProceed ==
    \A c, d \in Conns :
        (c # d /\ Blocked(c) /\ conn[d] = "open"
            /\ (k[d] = <<>> => budget > 0)
            /\ (k[d] # <<>> => Head(k[d]).op = "send"))
        => ENABLED (debug_websocket(d) \/ send_text(d))

\* C11: a step command's read blocked on a debuggee that never prompts ends once the client
\* (who still has messages to send, a restart among them) asks for a
\* restart: the child is terminated and the read returns at end of stream.
C11_RestartUnblocksPendingRead ==
    \A c \in Conns :
        (Blocked(c) /\ req[c] \in StepCommands /\ budget > 0) ~> ~Blocked(c)

\* The debuggee's stream closed during the request at hand: commands were
\* written to it in this request and it is gone without having been quit.
StreamClosed(c) == loc[c].wrote /\ dbg[c].st = "exited" /\ dbg[c].cmd # "q"

\* C12: when the debuggee's stream closes during a step command, the session
\* is finished (its process released) by the end of the request.
C12_ClosedStreamFinishesSession ==
    \A c \in Conns :
        (Done(c) /\ req[c] \in StepCommands /\ StreamClosed(c)) => Finished(c)

\* handle_start_session is on its way to return None, or has: the handler
\* ended without an exception.
StartFailed(c) ==
    /\ req[c] \in {"start_session", "restart"}
    /\ \/ conn[c] = "closed" /\ ~loc[c].raised
       \/ k[c] # <<>> /\ Head(k[c]) = Ctl("return_none")
       \/ Len(k[c]) > 1 /\ k[c][2] = Ctl("return_none")

\* C13: when the session cannot be created during start_session or restart,
\* the client gets exactly one error and nothing else for that request, and
\* no further session or process is created.
C13_StartFailureReported ==
    /\ [](\A c \in Conns :
            StartFailed(c) =>
                /\ Types(out[c]) \in {<<>>, <<"error">>}
                /\ Done(c) => Types(out[c]) = <<"error">>)
    /\ [][\A c \in Conns :
            StartFailed(c) =>
                /\ nsess'[c] = nsess[c]
                /\ Live(dbg'[c]) => Live(dbg[c])]_vars

\* A restart on a connection that had a session failed to start the new one.
C13_Witness ==
    \E c \in Conns :
        /\ Done(c) /\ StartFailed(c) /\ req[c] = "restart"
        /\ sess[c].id = 1 /\ nsess[c] = 1
        /\ Types(out[c]) = <<"error">>

\* The capture loop of step_over / step_out is about to end because the last
\* step did not enter a deeper frame, the debuggee still running.
LoopEnds(c) ==
    /\ AtCtl(c, "new_frames")
    /\ loc[c].fr.n <= loc[c].initn
    /\ dbg[c].st = "alive"

\* The loop began at a line (not at a return) of a function F.
BeganAtLine(c) == loc[c].at0.depth > 0 /\ ~loc[c].at0.ret

C15_AllCallsCaptured ==
    \A c \in Conns :
        (LoopEnds(c) /\ BeganAtLine(c) /\ loc[c].ncall = 2 /\ ~dbg[c].gen)
        => Len(loc[c].calls) = 2 /\ dbg[c].depth <= loc[c].at0.depth

\* _step_over_and_capture_calls has not returned yet to
\* _step_over_and_capture_delta.
InLoop(c) ==
    \E i \in 1..Len(k[c]) : k[c][i] = Ctl("_step_over_and_capture_delta")

\* The next thing the handler does is leave the capture loop.
LoopDone(c) == Head(k[c]) = Ctl("_step_over_and_capture_delta")

\* C16: a step_over whose capture loop entered a generator function leaves it by `up`
\* and `n` before it ends, so that it never ends with the debuggee still at
\* the entry of a generator function it stepped into.
C16_GeneratorLeftByUpAndNext ==
    \A c \in Conns :
        (req[c] = "step_over" /\ BeganAtLine(c) /\ InLoop(c) /\ LoopDone(c)
            /\ dbg[c].st = "alive" /\ loc[c].ncall >= 1)
        => ~dbg[c].gen

\* C17: an exception entry is the last of the captured list and ends the
\* loop; a pending exception never gets as far as the depth comparison; and
\* (the debuggee still running) the entry appended is an exception entry
\* exactly when an exception is pending.
C17_ExceptionStopsLoop ==
    /\ [](\A c \in Conns :
            /\ \A i \in 1..Len(loc[c].calls) :
                  loc[c].calls[i] = "exception" => i = Len(loc[c].calls)
            /\ (InLoop(c) /\ loc[c].calls # <<>>
                    /\ loc[c].calls[Len(loc[c].calls)] = "exception")
                 => LoopDone(c)
            /\ (AtCtl(c, "new_frames") /\ dbg[c].st = "alive") => ~dbg[c].exc)
    /\ [][\A c \in Conns :
            (Len(loc'[c].calls) > Len(loc[c].calls) /\ dbg[c].st = "alive") =>
                (loc'[c].calls[Len(loc'[c].calls)] = "exception" <=> dbg[c].exc)]_vars

\* A call was captured, then the step after it raised: the exception entry
\* is the second and last.
C17_Witness ==
    \E c \in Conns :
        /\ InLoop(c) /\ LoopDone(c) /\ dbg[c].exc
        /\ loc[c].calls = <<"call", "exception">>

\* C18: a step_into request that wrote to a debuggee which is still running
\* has appended its history entry (kind step_into, no delta) and left the
\* session unfinished and the connection served.
C18_StepIntoAppendsEntry ==
    \A c \in Conns :
        (Done(c) /\ req[c] = "step_into" /\ loc[c].wrote /\ Live(dbg[c]))
        => /\ sess[c].process /\ conn[c] = "open"
           /\ sess[c].hist # <<>>
           /\ sess[c].hist[Len(sess[c].hist)].kind = "step_into"
           /\ ~sess[c].hist[Len(sess[c].hist)].delta

\* C19: step_out is the finish command followed by step_over; in particular
\* a step_out that leaves main in returning state finishes the session, so
\* that no state message answering a step_out has is_returning and
\* is_in_main both true.
C19_StepOutFinishesLikeStepOver ==
    \A c \in Conns :
        (req[c] = "step_out" /\ Live(dbg[c])) =>
            \A i \in 1..Len(out[c]) :
                out[c][i].t = "state" => ~(out[c][i].ret /\ out[c][i].main)

\* C20: in every state message (the debuggee still standing where the
\* snapshot was taken) can_step_out is the negation of is_in_main and
\* can_step_into tells whether the debuggee's line is one of the call lines
\* of the program; a session's set of call lines is the one computed from
\* the program at construction and no later operation changes it.
C20_StateFlags ==
    /\ [](\A c \in Conns :
            /\ sess[c].id # 0 => sess[c].ufc = code.calls
            /\ dbg[c].st = "alive" =>
                 \A i \in 1..Len(out[c]) :
                    out[c][i].t = "state" =>
                        /\ out[c][i].outof = ~out[c][i].main
                        /\ out[c][i].into = (dbg[c].line \in code.calls))
    /\ [][\A c \in Conns :
            sess'[c].id = sess[c].id => sess'[c].ufc = sess[c].ufc]_vars

\* A step ended outside main on a line that calls a user function.
C20_Witness ==
    \E c \in Conns :
        /\ req[c] \in StepCommands /\ dbg[c].st = "alive" /\ Len(out[c]) = 1
        /\ out[c][1].t = "state" /\ out[c][1].into /\ out[c][1].outof
        /\ code.calls # 1..code.lines

\* The entries request c has appended to the history so far.
Appended(c) == Len(sess[c].hist) - loc[c].h0

\* While the session stays the same, every entry of its history keeps its
\* index, its step kind and its delta.
HistoryKept ==
    \A c \in Conns :
        sess'[c].id = sess[c].id =>
            /\ Len(sess'[c].hist) >= Len(sess[c].hist)
            /\ \A i \in 1..Len(sess[c].hist) :
                  /\ sess'[c].hist[i].kind = sess[c].hist[i].kind
                  /\ sess'[c].hist[i].delta = sess[c].hist[i].delta

\* C21: the history only grows at its end (HistoryKept at every step), and
\* a request that wrote to a debuggee which is still running has appended
\* exactly one entry when it was a step_into or a step_out, at most two when
\* it was a step_over, none when it was an explain_step.
C21_HistoryAppendOnly ==
    /\ [](\A c \in Conns :
            (Done(c) /\ sess[c].id # 0 /\ Live(dbg[c])) =>
                /\ (req[c] \in {"step_into", "step_out"} /\ loc[c].wrote) => Appended(c) = 1
                /\ req[c] = "step_over" => Appended(c) \in 0..2
                /\ req[c] = "explain_step" => Appended(c) = 0)
    /\ [][HistoryKept]_vars

\* ------------------------------------------ the process bridge: read-until
Chars == {"a", "b"}

SeqsUpTo(S, n) == UNION {[1..m -> S] : m \in 0..n}

\* A test for the marker that looks at the last character only.
EndsWith_lastChar(output, pattern) == output # <<>> /\ output[Len(output)] = pattern[Len(pattern)]

\* output.endswith(pattern)
EndsWith(output, pattern) ==
    /\ Len(output) >= Len(pattern)
    /\ SubSeq(output, Len(output) - Len(pattern) + 1, Len(output)) = pattern

\* The child's stdout holds `stream` and then closes; _read_up_to(pattern)
\* is called on it. pos counts the characters read(1) has handed out.
InitReadUpTo ==
    /\ NoClient
    /\ arg \in [stream : SeqsUpTo(Chars, MaxStream),
                 pattern : SeqsUpTo(Chars, MaxPattern) \ {<<>>}]
    /\ val = [output |-> <<>>, pos |-> 0, returned |-> FALSE]

\* One turn of `while True`: read(1); `if not char: break`; output += char;
\* `if output.endswith(pattern): break`.
_read_up_to ==
    /\ ~val.returned
    /\ UNCHANGED <<Gateway, arg>>
    /\ IF val.pos = Len(arg.stream)
         THEN val' = [val EXCEPT !.returned = TRUE]
         ELSE LET output == Append(val.output, arg.stream[val.pos + 1])
              IN val' = [output |-> output, pos |-> val.pos + 1,
                         returned |-> EndsWith(output, arg.pattern)]

SpecReadUpTo == InitReadUpTo /\ [][_read_up_to]_vars

\* The lengths of the prefixes of the stream that end with the marker.
Hits ==
    {n \in Len(arg.pattern)..Len(arg.stream) :
        \A i \in 1..Len(arg.pattern) : arg.stream[n - Len(arg.pattern) + i] = arg.pattern[i]}

\* C22: what _read_up_to returns is the shortest prefix of the stream that
\* ends with the marker, or the whole stream when no prefix does, and the
\* characters taken from the stream are exactly those returned.
C22_ReadUpTo ==
    val.returned =>
        /\ val.output = SubSeq(arg.stream, 1, val.pos)
        /\ IF Hits = {} THEN val.pos = Len(arg.stream)
           ELSE val.pos \in Hits /\ \A n \in Hits : val.pos <= n

\* The marker came after other characters, shares a character with them,
\* and more of the stream was left unread behind it.
C22_Witness ==
    /\ val.returned /\ Hits # {}
    /\ Len(arg.pattern) = MaxPattern
    /\ val.pos > Len(arg.pattern) /\ val.pos < Len(arg.stream)
    /\ val.output[val.pos - Len(arg.pattern)] = arg.pattern[Len(arg.pattern)]

\* ------------------------------------------------------ the output parser
\* A raw text is the sequence of its lines (output_text.split("\n")), each
\* line one of these; what the regular expressions of the parser make of a
\* line is told by the sets below.
Lines ==
    { "", "hello", "> hello", "  print(1)", "  3  foo(1)", "-> x = 1",
      "  /app/main.py(3)main()", "> /app/main.py(3)main()",
      "  <string>(1)<module>()", "> <string>(1)<module>()",
      CALL_PATTERN, RETURN_PATTERN, PROGRAM_FINISHED_PATTERN }

Texts == SeqsUpTo(Lines, MaxText) \ {<<>>}

\* re.match(r"^\s*>", line)
LooksCurrent == {"> hello", "> /app/main.py(3)main()", "> <string>(1)<module>()"}

\* re.match(r"^\s+[^(]+\(\d+\)", line)
LooksFrame ==
    {"  print(1)", "  3  foo(1)", "  /app/main.py(3)main()", "  <string>(1)<module>()"}

\* re.match(r"^\s*\d+\s+", line)
Numbered == {"  3  foo(1)"}

\* line.startswith(">")
StartsWithGt == {"> hello", "> /app/main.py(3)main()", "> <string>(1)<module>()"}

\* First lines FRAME_WITH_CODE_PATTERN accepts, and second lines ("->...").
Headers ==
    {"  /app/main.py(3)main()", "> /app/main.py(3)main()",
     "  <string>(1)<module>()", "> <string>(1)<module>()"}

CodeLines == {"-> x = 1"}

\* Lines FRAME_STRING_PATTERN accepts.
StringFrames == {"  <string>(1)<module>()", "> <string>(1)<module>()"}

Least(S) == CHOOSE i \in S : \A j \in S : i <= j

Markers == <<CALL_PATTERN, RETURN_PATTERN, PROGRAM_FINISHED_PATTERN>>

\* "\n".join(lines): the text of no line at all is the text of one empty line.
Join(lines) == IF lines = <<>> THEN <<"">> ELSE lines

\* FRAME_WITH_CODE_PATTERN.match("\n".join(frame_lines[i : i + 2]) + "\n")
match1(frame_lines, i) ==
    /\ i + 1 <= Len(frame_lines)
    /\ frame_lines[i] \in Headers
    /\ frame_lines[i + 1] \in CodeLines

\* FRAME_STRING_PATTERN.match(line)
match2(frame_lines, i) == frame_lines[i] \in StringFrames

Frame(header, codeline) ==
    [header |-> header, code |-> codeline, is_current |-> header \in StartsWithGt]

RECURSIVE extract_frames(_, _)

\* A parser that gives up at the first line it cannot match.
skip_unmatched_stops(frame_lines, i) == <<>>

\* "Skip unmatched lines": i += 1
skip_unmatched(frame_lines, i) == extract_frames(frame_lines, i + 1)

\* `while i < len(frame_lines)`, from the i-th line on.
extract_frames(frame_lines, i) ==
    IF i > Len(frame_lines) THEN <<>>
    ELSE IF match1(frame_lines, i)
      THEN <<Frame(frame_lines[i], frame_lines[i + 1])>> \o extract_frames(frame_lines, i + 2)
    ELSE IF match2(frame_lines, i)
      THEN <<Frame(frame_lines[i], "")>> \o extract_frames(frame_lines, i + 1)
    ELSE skip_unmatched(frame_lines, i)

\* The first line that looks like frame output and not like list output
\* (0 for None).
frame_start_idx(lines) ==
    LET starts == {i \in 1..Len(lines) :
                      /\ lines[i] \in LooksCurrent \cup LooksFrame
                      /\ lines[i] \notin Numbered}
    IN IF starts = {} THEN 0 ELSE CHOOSE i \in starts : \A j \in starts : i <= j

parse_pdb_output(output_text) ==
    LET start == frame_start_idx(output_text)
    IN IF start = 0
         THEN [program_output |-> output_text, frames |-> <<>>]
         ELSE [program_output |-> Join(SubSeq(output_text, 1, start - 1)),
               frames |-> extract_frames(SubSeq(output_text, start, Len(output_text)), 1)]

\* `pattern in raw_output`, raw_output.index(pattern), raw_output[:idx]
Has(raw_output, pattern) == \E i \in 1..Len(raw_output) : raw_output[i] = pattern

Index(raw_output, pattern) ==
    CHOOSE i \in 1..Len(raw_output) :
        raw_output[i] = pattern /\ \A j \in 1..(i - 1) : raw_output[j] # pattern

Before(raw_output, idx) == SubSeq(raw_output, 1, idx - 1) \o <<"">>

\* for pattern in (CALL_PATTERN, RETURN_PATTERN, PROGRAM_FINISHED_PATTERN): ... break
RECURSIVE find_pattern(_, _, _)
find_pattern(raw_output, parsed, n) ==
    IF n > Len(Markers)
      THEN [program_output |-> parsed.program_output, pdb_output |-> "",
            frames |-> parsed.frames]
    ELSE IF Has(raw_output, Markers[n])
      THEN [program_output |-> Before(raw_output, Index(raw_output, Markers[n])),
            pdb_output |-> Markers[n], frames |-> parsed.frames]
    ELSE find_pattern(raw_output, parsed, n + 1)

NotParsed == [program_output |-> <<>>, frames |-> <<>>]

NoFrame == Frame("", "")

\* get_current_frame's `for frame in frames: if frame.get("is_current", False)`:
\* the indexes of the frames marked current.
Current(frames) == {j \in 1..Len(frames) : frames[j].is_current}

\* A read has returned the raw text arg (the prompt already taken off).
InitParse ==
    /\ NoClient
    /\ arg \in Texts
    /\ val = [pc |-> "parse", parsed |-> NotParsed,
              program_output |-> <<>>, pdb_output |-> "", frames |-> <<>>,
              ret_frame |-> NoFrame]

\* program_output, frames = parse_pdb_output(raw_output)
parse_raw_output ==
    /\ val.pc = "parse"
    /\ val' = [val EXCEPT !.pc = "patterns", !.parsed = parse_pdb_output(arg)]
    /\ UNCHANGED <<Gateway, arg>>

\* the loop over the patterns, then `return program_output, pdb_output, frames`
_read_user_and_pdb_output ==
    /\ val.pc = "patterns"
    /\ LET found == find_pattern(arg, val.parsed, 1)
       IN val' = [val EXCEPT !.pc = "returned",
                             !.program_output = found.program_output,
                             !.pdb_output = found.pdb_output,
                             !.frames = found.frames]
    /\ UNCHANGED <<Gateway, arg>>

\* get_current_frame on the frames of that read: the first frame marked
\* current is returned; `raise Exception("No current frame found")`.
current_frame_found ==
    /\ val.pc = "returned"
    /\ val' = IF Current(val.frames) = {}
                THEN [val EXCEPT !.pc = "raised"]
                ELSE [val EXCEPT !.pc = "frame",
                                 !.ret_frame = val.frames[Least(Current(val.frames))]]
    /\ UNCHANGED <<Gateway, arg>>

NextParse == parse_raw_output \/ _read_user_and_pdb_output \/ current_frame_found

SpecParse == InitParse /\ [][NextParse]_vars

\* Where a frame shape begins in the text.
Shaped(lines) == {i \in 1..Len(lines) : match1(lines, i) \/ match2(lines, i)}

Parsed == val.pc # "parse"

\* C23: a text no part of which has a frame shape parses to no frame and to
\* a program_output that is the whole text.
C23_ParseFallback ==
    (Parsed /\ Shaped(arg) = {}) =>
        val.parsed.frames = <<>> /\ val.parsed.program_output = arg

\* Where a reserved marker stands in the text.
MarkerAt(lines) ==
    {i \in 1..Len(lines) : lines[i] \in {CALL_PATTERN, RETURN_PATTERN, PROGRAM_FINISHED_PATTERN}}

Returned == val.pc \notin {"parse", "patterns"}

\* C26: when the text holds more than one of the reserved markers, the
\* control marker returned is the one that stands first in the text and
\* program_output is the text before it.
C26_FirstMarkerWins ==
    (Returned /\ Cardinality({arg[i] : i \in MarkerAt(arg)}) > 1) =>
        /\ val.pdb_output = arg[Least(MarkerAt(arg))]
        /\ val.program_output = SubSeq(arg, 1, Least(MarkerAt(arg)) - 1) \o <<"">>

\* The frame a shape beginning at line i of the text stands for.
FrameAt(lines, i) ==
    [header |-> lines[i],
     code |-> IF match1(lines, i) THEN lines[i + 1] ELSE "",
     is_current |-> lines[i] \in StartsWithGt]

\* The j-th smallest member of a set of numbers.
Nth(S, j) == CHOOSE i \in S : Cardinality({x \in S : x <= i}) = j

\* C27: a text with none of the reserved markers is returned with an empty
\* control marker and with the parser's own program_output and frames; the
\* frames are those of the lines that have a frame shape, in their order,
\* the other lines being skipped; and no text stops the parser or the read
\* before they return.
C27_NoMarker ==
    /\ ~Returned => ENABLED NextParse
    /\ (Parsed /\ MarkerAt(arg) = {}) =>
          /\ Len(val.parsed.frames) = Cardinality(Shaped(arg))
          /\ \A j \in 1..Len(val.parsed.frames) :
                val.parsed.frames[j] = FrameAt(arg, Nth(Shaped(arg), j))
    /\ (Returned /\ MarkerAt(arg) = {}) =>
          /\ val.pdb_output = ""
          /\ val.program_output = val.parsed.program_output
          /\ val.frames = val.parsed.frames

\* A line that only looks like a frame was skipped before a frame was found.
C27_Witness ==
    /\ Returned /\ MarkerAt(arg) = {}
    /\ val.frames # <<>>
    /\ frame_start_idx(arg) < Least(Shaped(arg))
    /\ val.program_output # <<"">>

\* C28: the frame list the parser returns has at most one frame whose
\* is_current is true.
C28_OneCurrentFrame ==
    Parsed =>
        Cardinality({j \in 1..Len(val.parsed.frames) : val.parsed.frames[j].is_current}) <= 1

\* C24: when the frames of a read hold no frame marked current (the list is
\* empty, or none of its frames is), get_current_frame, on which get_state
\* and the three steps rest, does not raise and hands back empty frame data.
C24_NoCurrentFrameTolerated ==
    (val.pc \in {"raised", "frame"} /\ Current(val.frames) = {}) =>
        val.pc = "frame" /\ val.ret_frame = NoFrame

\* ------------------------------------------- the inspector: get_local_vars
\* What `p <expr>` may print, line by line: nothing, a debugger error, the
\* repr of a number, and the reprs of three strings (no JSON, a JSON list,
\* a serialized variable map).
VarMap == "'{\"x\": {\"id\": 1, \"repr_tree\": {\"name\": \"x\", \"value\": \"1\", \"kind\": \"primitive\"}}}'"

Printed ==
    {"", "*** NameError: name 'build_var_tree' is not defined", "42",
     "'hello'", "'[1, 2]'", VarMap}

\* Python values: an exception raised instead of a value has type "raise".
Py(type, v) == [type |-> type, v |-> v]

EmptyDict == Py("dict", "{}")

RECURSIVE lstrip(_)
lstrip(text) == IF text # <<>> /\ Head(text) = "" THEN lstrip(Tail(text)) ELSE text

RECURSIVE rstrip(_)
rstrip(text) ==
    IF text # <<>> /\ text[Len(text)] = "" THEN rstrip(SubSeq(text, 1, Len(text) - 1)) ELSE text

\* str.strip(): the empty lines at both ends go.
strip(text) == rstrip(lstrip(text))

\* eval(raw): a one-line literal is its value, anything else an exception.
eval(raw) ==
    IF Len(raw) # 1 THEN Py("raise", "SyntaxError")
    ELSE CASE raw[1] = "42" -> Py("int", "42")
           [] raw[1] = "'hello'" -> Py("str", "hello")
           [] raw[1] = "'[1, 2]'" -> Py("str", "[1, 2]")
           [] raw[1] = VarMap -> Py("str", "variables")
           [] OTHER -> Py("raise", "SyntaxError")

\* json.loads(json_str)
json_loads(json_str) ==
    IF json_str.type # "str" THEN Py("raise", "TypeError")
    ELSE CASE json_str.v = "[1, 2]" -> Py("list", "[1, 2]")
           [] json_str.v = "variables" -> Py("dict", "variables")
           [] OTHER -> Py("raise", "JSONDecodeError")

\* pdb_p has returned the text arg.
InitLocals ==
    /\ NoClient
    /\ arg \in SeqsUpTo(Printed, MaxText)
    /\ val = [pc |-> "strip", raw |-> <<>>, json_str |-> Py("none", ""), vars |-> Py("none", "")]

\* raw = self.pdb_p(expr).strip()
get_local_vars_strip ==
    /\ val.pc = "strip"
    /\ val' = [val EXCEPT !.pc = "eval", !.raw = strip(arg)]
    /\ UNCHANGED <<Gateway, arg>>

\* try: json_str = eval(raw) / except Exception: return {}
get_local_vars_eval ==
    /\ val.pc = "eval"
    /\ LET v == eval(val.raw)
       IN val' = IF v.type = "raise"
                   THEN [val EXCEPT !.pc = "returned", !.vars = EmptyDict]
                   ELSE [val EXCEPT !.pc = "loads", !.json_str = v]
    /\ UNCHANGED <<Gateway, arg>>

\* try: return json.loads(json_str) / except json.JSONDecodeError: return {}
get_local_vars_loads ==
    /\ val.pc = "loads"
    /\ LET v == json_loads(val.json_str)
       IN val' = IF v.type # "raise" THEN [val EXCEPT !.pc = "returned", !.vars = v]
                 ELSE IF v.v = "JSONDecodeError"
                   THEN [val EXCEPT !.pc = "returned", !.vars = EmptyDict]
                 ELSE [val EXCEPT !.pc = "raised", !.vars = v]
    /\ UNCHANGED <<Gateway, arg>>

NextLocals == get_local_vars_strip \/ get_local_vars_eval \/ get_local_vars_loads

SpecLocals == InitLocals /\ [][NextLocals]_vars

\* The text is one serialized variable map, empty lines around it aside.
WellFormed(text) == \E i \in 1..Len(text) : text[i] = VarMap /\ \A j \in 1..Len(text) : j # i => text[j] = ""

\* C25: whatever the evaluation printed, get_local_vars returns, never
\* raises, and what it returns is a mapping: the empty one unless the text
\* is a well-formed serialized variable map.
C25_LocalsNeverRaise ==
    /\ val.pc # "raised"
    /\ val.pc = "returned" =>
          /\ val.vars.type = "dict"
          /\ ~WellFormed(arg) => val.vars = EmptyDict

\* ------------------------------------------- the inspector: build_var_tree
\* The object graph the locals hold: a container "root", a list "inner" and
\* an int "int". A container is its type and its elements (items, or
\* attributes with their names) in order, each a reference. `locals` is the
\* mapping handed to build_var_tree: its names in order, each bound as Bound
\* tells.
Containers == {"root", "inner"}

Kinds == {"list", "tuple", "dict", "set", "instance"}

Ref(name, ref) == [name |-> name, ref |-> ref]

Plain == {Ref("x", o) : o \in Containers \cup {"int"}}

\* An instance may also have an attribute named __x__.
Attrs == Plain \cup {Ref("__x__", "int")}

\* vars(val) may hold a key that is no string (obj.__dict__[1] = 2).
NonStr == "1"

Keys == Attrs \cup {Ref(NonStr, "int")}

\* The names of locals: "a" and "b" are bound to the one object "root",
\* "__v" and "__v__" to an int.
Names == {"a", "b", "__v", "__v__"}

Bound(name) == IF name \in {"root", "a", "b"} THEN "root" ELSE "int"

\* The mappings of at most n of these names (a dict has each key once).
Mappings(n) == {m \in SeqsUpTo(Names, n) : \A i, j \in 1..Len(m) : i # j => m[i] # m[j]}

Graphs ==
    [type : Kinds,
     root : SeqsUpTo(Attrs, MaxElems),
     inner : SeqsUpTo(Plain, MaxElems - 2),
     max_children : 0..MaxElems,
     max_depth : 0..MaxTreeDepth,
     locals : {<<"root">>}]

\* Several locals, two of them naming the same object.
Aliased ==
    [type : Kinds,
     root : SeqsUpTo(Keys, MaxElems - 1),
     inner : {<<>>},
     max_children : {MaxElems},
     max_depth : 0..MaxTreeDepth,
     locals : Mappings(MaxVars)]

WellTyped(g) ==
    g.type # "instance" => \A j \in 1..Len(g.root) : g.root[j] \in Plain

TypeOf(o) == IF o = "root" THEN arg.type ELSE IF o = "inner" THEN "list" ELSE "int"

Elems(o) == IF o = "root" THEN arg.root ELSE IF o = "inner" THEN arg.inner ELSE <<>>

\* A VariableNode. `of` tells which object the node renders (the code keeps
\* its repr in value); `more` is the count of a "<n> more" leaf.
Node(name, of, value, kind, children) ==
    [name |-> name, of |-> of, value |-> value, more |-> 0, kind |-> kind,
     children |-> children]

Leaf(name, of, value) == Node(name, of, value, "primitive", <<>>)

\* {"name": "...", "value": "%d more" % (len(val) - max_children), "kind": "primitive"}
More(n) == [Leaf("...", "", "more") EXCEPT !.more = n]

NoNode == Leaf("", "", "")

\* A descent that does not remember the object it is expanding.
enter_unseen(seen, oid) == seen

\* seen.add(oid)
enter(seen, oid) == seen \cup {oid}

\* A node is handed to the caller: appended to the children of the node
\* being built, or, for the outermost call, returned to build_var_tree, which
\* stores it under its name (out[k] = ...) and goes on to the next local.
Deliver(v, node) ==
    IF v.stack = <<>>
    THEN [v EXCEPT !.tree = node, !.pc = "call", !.n = @ + 1,
                   !.out = Append(@, [name |-> node.name, repr_tree |-> node])]
    ELSE [v EXCEPT !.stack[Len(v.stack)].children = Append(@, node)]

\* A depth test that already stops at max_depth.
too_deep_at(depth) == depth >= arg.max_depth

\* if depth > max_depth
too_deep(depth) == depth > arg.max_depth

\* _make_node(name, val, depth, ...) up to the loop over the children.
_make_node(v, name, oid, depth) ==
    LET w == [v EXCEPT !.calls = @ + 1]
    IN IF oid \in v.seen THEN Deliver(w, Leaf(name, oid, "<cycle>"))
       ELSE IF too_deep(depth) THEN Deliver(w, Leaf(name, oid, "repr"))
       ELSE IF TypeOf(oid) = "int" THEN Deliver(w, Leaf(name, oid, "repr"))
       ELSE [w EXCEPT !.seen = enter(@, oid),
                      !.stack = Append(@, [name |-> name, of |-> oid, depth |-> depth,
                                           i |-> 1, children |-> <<>>])]

\* val[:max_children]
Shown(o) == Min(Len(Elems(o)), arg.max_children)

\* out = {}; seen = set()
Fresh ==
    [pc |-> "call", n |-> 1, out |-> <<>>, stack |-> <<>>, seen |-> {}, tree |-> NoNode,
     calls |-> 0]

InitTree ==
    /\ NoClient
    /\ arg \in Graphs /\ WellTyped(arg)
    /\ val = Fresh

InitVars ==
    /\ NoClient
    /\ arg \in Aliased /\ WellTyped(arg)
    /\ val = Fresh

\* The names that start with "__", and those among them that end with it.
StartsWith__ == {"__v", "__v__", "__x__"}

Dunder == {"__v__", "__x__"}

\* k.startswith("__")
hidden(name) == name \in StartsWith__

\* One turn of the loop over locals_dict.items(): a name that starts with
\* "__" is passed over, any other gets its node; after the last, return out.
build_var_tree ==
    /\ val.pc = "call"
    /\ val' = IF val.n > Len(arg.locals) THEN [val EXCEPT !.pc = "returned"]
              ELSE IF hidden(arg.locals[val.n]) THEN [val EXCEPT !.n = @ + 1]
              ELSE _make_node([val EXCEPT !.pc = "build"], arg.locals[val.n],
                              Bound(arg.locals[val.n]), 0)
    /\ UNCHANGED <<Gateway, arg>>

\* except Exception as e: return {"name": name, "value": "<error: %s>" % (e,),
\* "kind": "primitive"}: the call ends there, seen is left as it is.
Failed(v) ==
    LET f == v.stack[Len(v.stack)]
    IN Deliver([v EXCEPT !.stack = SubSeq(@, 1, Len(@) - 1)], Leaf(f.name, f.of, "<error>"))

\* One turn of the loop over the first max_children elements: an attribute
\* of an instance named like a dunder is passed over, a key of the
\* attributes that is no string has no startswith and raises, any other
\* element becomes a child.
_make_node_child ==
    /\ val.pc = "build" /\ val.stack # <<>>
    /\ LET f == val.stack[Len(val.stack)]
           v == [val EXCEPT !.stack[Len(val.stack)].i = @ + 1]
       IN /\ f.i <= Shown(f.of)
          /\ LET e == Elems(f.of)[f.i]
             IN val' = IF TypeOf(f.of) = "instance" /\ e.name = NonStr THEN Failed(val)
                       ELSE IF TypeOf(f.of) = "instance" /\ e.name = "__x__" THEN v
                       ELSE _make_node(v, IF TypeOf(f.of) = "instance" THEN e.name ELSE "index",
                                       e.ref, f.depth + 1)
    /\ UNCHANGED <<Gateway, arg>>

\* After the loop: the "<n> more" leaf, seen.discard(oid), return the node.
_make_node_return ==
    /\ val.pc = "build" /\ val.stack # <<>>
    /\ LET f == val.stack[Len(val.stack)]
           size == Len(Elems(f.of))
           children == f.children \o (IF size > arg.max_children
                                        THEN <<More(size - arg.max_children)>> ELSE <<>>)
       IN /\ f.i > Shown(f.of)
          /\ val' = Deliver([val EXCEPT !.stack = SubSeq(@, 1, Len(@) - 1),
                                         !.seen = @ \ {f.of}],
                             Node(f.name, f.of, "repr", TypeOf(f.of), children))
    /\ UNCHANGED <<Gateway, arg>>

NextTree == build_var_tree \/ _make_node_child \/ _make_node_return

SpecTree == InitTree /\ [][NextTree]_vars

SpecVars == InitVars /\ [][NextTree]_vars

\* The nodes of a tree that render an expanded container.
RECURSIVE Expanded(_)
Expanded(node) ==
    (IF node.kind \in Kinds THEN {node} ELSE {})
        \cup UNION {Expanded(node.children[j]) : j \in 1..Len(node.children)}

Built == val.pc = "returned"

\* C29: in the tree returned, the node of a container of k elements has, when
\* k > max_children, max_children + 1 children, the first max_children of
\* them rendering the first elements in order and the last being the leaf
\* "<k - max_children> more"; when k <= max_children it has k children, one
\* per element in order.
C29_TruncatedToMaxChildren ==
    Built =>
        \A node \in Expanded(val.tree) :
            LET size == Len(Elems(node.of))
                n == Min(size, arg.max_children)
            IN /\ Len(node.children) = IF size > arg.max_children THEN n + 1 ELSE size
               /\ \A j \in 1..Min(n, Len(node.children)) :
                     /\ node.children[j].of = Elems(node.of)[j].ref
                     /\ node.children[j].value # "more"
               /\ size > arg.max_children =>
                     node.children[Len(node.children)] = More(size - arg.max_children)

\* Every node of the tree that renders an object already being expanded
\* above it (path) is the leaf "<cycle>".
RECURSIVE CycleLeaves(_, _)
CycleLeaves(node, path) ==
    IF node.of \in path THEN node = Leaf(node.name, node.of, "<cycle>")
    ELSE \A j \in 1..Len(node.children) :
            CycleLeaves(node.children[j],
                        IF node.kind \in Kinds THEN path \cup {node.of} ELSE path)

\* The calls of _make_node a tree of this width and depth can take.
RECURSIVE MaxCalls(_, _)
MaxCalls(width, depth) == IF depth = 0 THEN 1 ELSE 1 + width * MaxCalls(width, depth - 1)

\* C30: the construction ends for every object graph, cycles included: it
\* can always go on until build_var_tree has its node, within a number of
\* calls and a nesting that max_children and max_depth bound; and in the
\* tree every occurrence of an object inside its own expansion is a leaf
\* "<cycle>" without children, so that the list [int, int, itself] has
\* three children, the third being "<cycle>".
C30_CycleSafe ==
    /\ ~Built => ENABLED NextTree
    /\ val.calls <= MaxCalls(arg.max_children, arg.max_depth + 1)
    /\ Len(val.stack) <= arg.max_depth + 1
    /\ Built =>
          /\ CycleLeaves(val.tree, {})
          /\ (/\ arg.type = "list"
              /\ arg.root = <<Ref("x", "int"), Ref("x", "int"), Ref("x", "root")>>
              /\ arg.max_children >= 3)
             => /\ Len(val.tree.children) = 3
                /\ val.tree.children[3] = Leaf("index", "root", "<cycle>")

\* The tree of the list [int, int, itself] has been built.
C30_Witness ==
    /\ Built
    /\ arg.type = "list"
    /\ arg.root = <<Ref("x", "int"), Ref("x", "int"), Ref("x", "root")>>
    /\ arg.max_children = 3 /\ arg.max_depth = MaxTreeDepth
    /\ val.tree.kind = "list"
    /\ val.tree.children[3].value = "<cycle>"

\* No leaf "<cycle>" of a tree renders an object that is not being expanded
\* above it (path).
RECURSIVE OnlyCycles(_, _)
OnlyCycles(node, path) ==
    /\ node.value = "<cycle>" => node.of \in path
    /\ \A j \in 1..Len(node.children) :
          OnlyCycles(node.children[j],
                     IF node.kind \in Kinds THEN path \cup {node.of} ELSE path)

\* C31: in what build_var_tree returns, a node is "<cycle>" only where its
\* object is one of those being expanded above it: an object met again
\* outside its own expansion (twice in one container, or under two locals of
\* the one call) is never rendered as a cycle, whichever way the calls that
\* built it before had returned.
C31_CycleOnlyOnPath ==
    Built => \A j \in 1..Len(val.out) : OnlyCycles(val.out[j].repr_tree, {})

\* In a tree whose root is at `depth`: a node deeper than max_depth is a
\* primitive leaf, and a node no deeper that renders a container which is
\* neither being expanded above it nor failing is expanded.
RECURSIVE DepthBound(_, _, _)
DepthBound(node, depth, path) ==
    /\ depth > arg.max_depth => node.kind = "primitive" /\ node.children = <<>>
    /\ (/\ depth <= arg.max_depth
        /\ node.of \in Containers \ path
        /\ node.value # "<error>") => node.kind = TypeOf(node.of)
    /\ \A j \in 1..Len(node.children) :
          DepthBound(node.children[j], depth + 1,
                     IF node.kind \in Kinds THEN path \cup {node.of} ELSE path)

\* C32: in the tree returned, the locals being at depth 0, no node deeper
\* than max_depth has children, it is a leaf of kind primitive; a container
\* at a depth of at most max_depth is expanded.
C32_DepthBound ==
    Built => DepthBound(val.tree, 0, {})

\* A list in a list was reached at max_depth and expanded, its elements
\* below being leaves.
C32_Witness ==
    /\ Built /\ arg.max_depth = 1 /\ arg.type = "list"
    /\ \E j \in 1..Len(val.tree.children) :
          /\ val.tree.children[j].kind = "list"
          /\ val.tree.children[j].children # <<>>
          /\ \A i \in 1..Len(val.tree.children[j].children) :
                val.tree.children[j].children[i].kind = "primitive"

\* C33: what build_var_tree returns has no entry under a dunder name and has
\* an entry for every other name of the mapping; and no child of an
\* expanded instance is named like a dunder.
C33_DunderFiltered ==
    Built =>
        /\ \A j \in 1..Len(val.out) : val.out[j].name \notin Dunder
        /\ \A i \in 1..Len(arg.locals) :
              arg.locals[i] \notin Dunder => \E j \in 1..Len(val.out) : val.out[j].name = arg.locals[i]
        /\ \A j \in 1..Len(val.out) : \A node \in Expanded(val.out[j].repr_tree) :
              node.kind = "instance" =>
                  \A i \in 1..Len(node.children) : node.children[i].name \notin Dunder

\* ------------------------------------------ FanoutWebSocketManager (1 : N)
\* val holds the manager: project_connections (key -> list of websockets,
\* defined on the keys the dict has), websocket_projects (websocket -> key),
\* and the one call of send_to in progress or last returned. Beside them
\* `handler` tells where project_websocket stands for each websocket, `ops`
\* counts the calls made on the manager directly.
Sockets == {"w1", "w2", "w3"}

\* project_id = str(message.get("project_id")), never empty
ProjectIds == {"p1", "p2"}

Restrict(f, S) == [x \in S |-> f[x]]

Range(list) == {list[j] : j \in 1..Len(list)}

Count(list, ws) == Cardinality({j \in 1..Len(list) : list[j] = ws})

\* list.remove(x): the first occurrence goes
remove(list, ws) ==
    LET i == Least({j \in 1..Len(list) : list[j] = ws})
    IN SubSeq(list, 1, i - 1) \o SubSeq(list, i + 1, Len(list))

\* send_to: no call yet. `n` numbers the call, `i` is the position of the
\* loop's iterator in `connections`, `live` tells that `connections` is
\* still the list the dict holds under key (a list taken out of the dict is
\* empty and stays so), `cur` the websocket whose send is awaited, `sent`
\* the websockets whose send returned, `disconnected` those whose send
\* raised. `start`, `stayed` and `alone` are observations: the list when the
\* call began, its websockets no other handler registered or unregistered
\* since, and whether any handler did.
NoSend ==
    [pc |-> "none", n |-> 0, key |-> "", i |-> 0, live |-> FALSE, cur |-> "",
     sent |-> <<>>, disconnected |-> <<>>, start |-> <<>>, stayed |-> {}, alone |-> TRUE]

\* __init__
Manager ==
    [project_connections |-> <<>>, websocket_projects |-> <<>>, send |-> NoSend,
     handler |-> [ws \in Sockets |-> "new"], ops |-> 0]

\* connect(key, websocket, already_accepted=True)
connect(v, key, ws) ==
    LET lists == IF key \in DOMAIN v.project_connections THEN v.project_connections
                 ELSE (key :> <<>>) @@ v.project_connections
    IN [v EXCEPT !.project_connections = [lists EXCEPT ![key] = Append(@, ws)],
                 !.websocket_projects = (ws :> key) @@ v.websocket_projects]

\* A disconnect that leaves the emptied list in the dict.
disconnect_keeps_key(v, ws) ==
    IF ws \notin DOMAIN v.websocket_projects THEN v
    ELSE LET key == v.websocket_projects[ws]
         IN [v EXCEPT !.project_connections =
                          IF key \in DOMAIN @ /\ ws \in Range(@[key])
                          THEN [@ EXCEPT ![key] = remove(@, ws)] ELSE @,
                      !.websocket_projects = Restrict(@, DOMAIN @ \ {ws})]

\* disconnect(websocket)
disconnect(v, ws) ==
    IF ws \notin DOMAIN v.websocket_projects THEN v
    ELSE LET key == v.websocket_projects[ws]
             lists == v.project_connections
             left == IF ws \in Range(lists[key]) THEN remove(lists[key], ws) ELSE lists[key]
             deleted == key \in DOMAIN lists /\ left = <<>>
         IN [v EXCEPT !.project_connections =
                          IF key \notin DOMAIN lists THEN lists
                          ELSE IF deleted THEN Restrict(lists, DOMAIN lists \ {key})
                          ELSE [lists EXCEPT ![key] = left],
                      !.websocket_projects = Restrict(@, DOMAIN @ \ {ws}),
                      !.send.live = @ /\ ~(deleted /\ v.send.key = key)]

\* The list `connections` of the call in progress, as it is now.
connections(v) == IF v.send.live THEN v.project_connections[v.send.key] ELSE <<>>

\* A failed send that is not remembered.
failed_forgotten(disconnected, ws) == disconnected

\* except Exception: disconnected.append(websocket)
failed(disconnected, ws) == Append(disconnected, ws)

\* for ws in disconnected: self.disconnect(ws)
RECURSIVE cleanup(_, _)
cleanup(v, disconnected) ==
    IF disconnected = <<>> THEN v
    ELSE cleanup(disconnect(v, Head(disconnected)), Tail(disconnected))

\* The loop asks its iterator for the next websocket: it awaits that one's
\* send, or, the list being exhausted, unregisters the failed ones and returns.
next(v) ==
    IF v.send.i < Len(connections(v))
    THEN [v EXCEPT !.send.i = @ + 1, !.send.cur = connections(v)[v.send.i + 1]]
    ELSE [cleanup(v, v.send.disconnected) EXCEPT !.send.pc = "returned", !.send.cur = ""]

\* Another handler registered or unregistered ws while send_to was suspended.
Meanwhile(v, ws) ==
    IF v.send.pc = "sending"
    THEN [v EXCEPT !.send.alone = FALSE, !.send.stayed = @ \ {ws}] ELSE v

InitFanout == NoClient /\ arg = <<>> /\ val = Manager

\* project_websocket: await manager.connect(project_id, websocket, already_accepted=True)
project_websocket ==
    /\ \E ws \in Sockets, key \in ProjectIds :
          /\ val.handler[ws] = "new"
          /\ val' = [Meanwhile(connect(val, key, ws), ws) EXCEPT !.handler[ws] = "open"]
    /\ UNCHANGED <<Gateway, arg>>

\* project_websocket: finally: manager.disconnect(websocket)
project_websocket_finally ==
    /\ \E ws \in Sockets :
          /\ val.handler[ws] = "open"
          /\ val' = [Meanwhile(disconnect(val, ws), ws) EXCEPT !.handler[ws] = "closed"]
    /\ UNCHANGED <<Gateway, arg>>

\* _run_agent_background: await manager.send_to(project_id, ...), up to the
\* first await: connections = self.project_connections.get(key, [])
send_to ==
    /\ val.send.pc # "sending" /\ val.send.n < MaxSends
    /\ \E key \in ProjectIds :
          LET has == key \in DOMAIN val.project_connections
          IN val' = next([val EXCEPT !.send =
                        [NoSend EXCEPT !.pc = "sending", !.n = val.send.n + 1, !.key = key,
                                       !.live = has,
                                       !.start = IF has THEN val.project_connections[key] ELSE <<>>,
                                       !.stayed = IF has THEN Range(val.project_connections[key]) ELSE {}]])
    /\ UNCHANGED <<Gateway, arg>>

\* await websocket.send_text(message) returns or raises; then the loop goes on.
send_to_resume ==
    /\ val.send.pc = "sending"
    /\ \E raises \in BOOLEAN :
          val' = next(IF raises
                      THEN [val EXCEPT !.send.disconnected = failed(@, val.send.cur)]
                      ELSE [val EXCEPT !.send.sent = Append(@, val.send.cur)])
    /\ UNCHANGED <<Gateway, arg>>

NextFanout == project_websocket \/ project_websocket_finally \/ send_to \/ send_to_resume

SpecFanout == InitFanout /\ [][NextFanout]_vars

\* The manager called directly, one call after the other: connect and
\* disconnect with any websocket and key, registered or not.
call_connect ==
    /\ val.send.pc # "sending" /\ val.ops < MaxOps
    /\ \E ws \in Sockets, key \in ProjectIds : val' = [connect(val, key, ws) EXCEPT !.ops = @ + 1]
    /\ UNCHANGED <<Gateway, arg>>

call_disconnect ==
    /\ val.send.pc # "sending" /\ val.ops < MaxOps
    /\ \E ws \in Sockets : val' = [disconnect(val, ws) EXCEPT !.ops = @ + 1]
    /\ UNCHANGED <<Gateway, arg>>

NextCalls == call_connect \/ call_disconnect \/ send_to \/ send_to_resume

SpecCalls == InitFanout /\ [][NextCalls]_vars

\* The lists a websocket is in, and whether it is registered at all.
ListsOf(v, ws) == {key \in DOMAIN v.project_connections : ws \in Range(v.project_connections[key])}

Unregistered(v, ws) == ListsOf(v, ws) = {} /\ ws \notin DOMAIN v.websocket_projects

\* What v says of the websockets other than ws.
Others(v, ws) ==
    [w \in Sockets \ {ws} |->
        <<ListsOf(v, w), IF w \in DOMAIN v.websocket_projects THEN v.websocket_projects[w] ELSE "">>]

\* C34: a websocket that project_websocket connects under a key is then in
\* that key's list and mapped to the key, beside those already sharing the
\* key; one it disconnects is then in no list and has no mapping; no key
\* ever maps to an empty list, the key going with its last connection; and
\* either call leaves the registration of every other websocket as it was.
C34_Registry ==
    /\ [](\A key \in DOMAIN val.project_connections : val.project_connections[key] # <<>>)
    /\ [][\A ws \in Sockets :
            /\ (val.handler[ws] = "new" /\ val'.handler[ws] = "open") =>
                  /\ ws \in DOMAIN val'.websocket_projects
                  /\ ws \in Range(val'.project_connections[val'.websocket_projects[ws]])
                  /\ \A key \in DOMAIN val.project_connections :
                        Range(val.project_connections[key]) \subseteq Range(val'.project_connections[key])
                  /\ Others(val', ws) = Others(val, ws)
            /\ (val.handler[ws] = "open" /\ val'.handler[ws] = "closed") =>
                  /\ Unregistered(val', ws)
                  /\ Others(val', ws) = Others(val, ws)]_vars

\* The last of two websockets sharing a key has been disconnected.
C34_Witness ==
    /\ val.handler["w1"] = "closed" /\ val.handler["w2"] = "closed"
    /\ val.handler["w3"] = "open"
    /\ val.websocket_projects = ("w3" :> "p2")
    /\ DOMAIN val.project_connections = {"p2"}

\* A call of send_to returns in this step.
Returns == val'.send.pc = "returned" /\ (val.send.pc # "returned" \/ val.send.n # val'.send.n)

\* How many times the call tried to send to ws.
Tried(f, ws) == Count(f.sent, ws) + Count(f.disconnected, ws)

\* C35: when a call of send_to during which no other handler touched the
\* registry returns, it has sent exactly once to each websocket that was
\* registered under the key and to no other websocket; those whose send
\* raised are registered no more, those whose send returned got the message
\* and are still registered under the key; and for a key without
\* connections nothing was sent.
C35_SendTo ==
    [][(Returns /\ val'.send.alone) =>
          LET f == val'.send
          IN /\ \A ws \in Range(f.start) : Tried(f, ws) = 1
             /\ \A ws \in Sockets \ Range(f.start) : Tried(f, ws) = 0
             /\ \A ws \in Range(f.disconnected) : Unregistered(val', ws)
             /\ \A ws \in Range(f.start) \ Range(f.disconnected) :
                   /\ ws \in Range(f.sent)
                   /\ ListsOf(val', ws) = {f.key}
                   /\ val'.websocket_projects[ws] = f.key
             /\ f.start = <<>> => f.sent = <<>> /\ f.disconnected = <<>>]_vars

\* A call for a key of two websockets has returned, the send to the first
\* having raised, while a third websocket is registered under the other key.
C35_Witness ==
    /\ val.send.pc = "returned" /\ val.send.alone
    /\ Len(val.send.start) = 2
    /\ val.send.disconnected = <<val.send.start[1]>>
    /\ val.send.sent = <<val.send.start[2]>>
    /\ \E ws \in Sockets \ Range(val.send.start) : ListsOf(val, ws) # {}

\* C37: after any calls of connect, disconnect and send_to made on the
\* manager, a websocket connected twice included, the two maps agree
\* (websocket_projects[ws] is key exactly when ws is in
\* project_connections[key]) and each websocket occurs at most once in all
\* the lists together.
C37_MapsAgree ==
    \A ws \in Sockets :
        /\ \A key \in ProjectIds :
              (ws \in DOMAIN val.websocket_projects /\ val.websocket_projects[ws] = key)
                  <=> key \in ListsOf(val, ws)
        /\ Cardinality(ListsOf(val, ws)) <= 1
        /\ \A key \in DOMAIN val.project_connections : Count(val.project_connections[key], ws) <= 1

\* C38: of a call of send_to that has returned, every websocket that was
\* registered under the key when it began, and that no other handler
\* registered or unregistered while the call was suspended, was sent the
\* message exactly once.
C38_SendToWhileOthersRun ==
    val.send.pc = "returned" => \A ws \in val.send.stayed : Tried(val.send, ws) = 1

\* ------------------------------------------------ the gateway, once more
\* C36: a step_over that finds the debuggee in main in returning state when
\* it begins (is_already_returning and is_already_in_main) follows a
\* step_out, the last step the history holds; and no step_over or step_into
\* that completes leaves the session live and paused in main in returning
\* state.
C36_MainReturningOnlyAfterStepOut ==
    \A c \in Conns :
        /\ (req[c] = "step_over" /\ loc[c].aret /\ loc[c].amain) =>
              /\ sess[c].hist # <<>>
              /\ sess[c].hist[Len(sess[c].hist)].kind = "step_out"
        /\ (/\ Done(c) /\ req[c] \in {"step_over", "step_into"}
            /\ sess[c].process /\ Live(dbg[c]) /\ ~loc[c].raised) =>
              ~(dbg[c].ret /\ dbg[c].depth = MainDepth)

\* C39: a step request that ran its step and completes without raising is
\* answered by exactly one message, finished if the session is finished
\* after the step and state otherwise; and when that state message carries
\* has_explanation, the last entry of the history has a delta, which is
\* what explain_step asks of the history.
C39_OneAnswerAndExplainable ==
    \A c \in Conns :
        (Done(c) /\ req[c] \in StepCommands /\ loc[c].wrote /\ ~loc[c].raised) =>
            /\ Len(out[c]) = 1
            /\ out[c][1].t = IF sess[c].process THEN "state" ELSE "finished"
            /\ out[c][1].he =>
                  /\ sess[c].hist # <<>>
                  /\ sess[c].hist[Len(sess[c].hist)].delta

\* A step_over has been answered by a state message with has_explanation.
C39_Witness ==
    \E c \in Conns :
        /\ Done(c) /\ req[c] = "step_over" /\ loc[c].wrote /\ ~loc[c].raised
        /\ sess[c].process
        /\ out[c] # <<>> /\ out[c][1].t = "state" /\ out[c][1].he
        /\ sess[c].hist[Len(sess[c].hist)].kind = "step_over"

\* ------------------------------------------------- the agent tasks (http)
\* val.agent_tasks is the dict of tasks in the order of their creation (a
\* task_id is a fresh uuid), each with its status; beside it `response` is
\* the status the endpoint answered with, `pc` where the background task
\* stands and `results` the status of each agent_result handed to send_to.
\* val.requests counts the requests, those answered 404 included.
TaskStatus == {"pending", "running", "completed", "failed"}

InitAgent == NoClient /\ arg = <<>> /\ val = [agent_tasks |-> <<>>, requests |-> 0]

\* POST /api/projects/{project_id}/run_agent
run_agent ==
    /\ val.requests < MaxTasks
    /\ \E project \in BOOLEAN :
          val' = IF ~project THEN [val EXCEPT !.requests = @ + 1]
                 ELSE [val EXCEPT !.requests = @ + 1,
                                  !.agent_tasks = Append(@, [status |-> "pending",
                                                             response |-> "pending",
                                                             pc |-> "added", results |-> <<>>])]
    /\ UNCHANGED <<Gateway, arg>>

\* _run_agent_background up to await loop.run_in_executor(...)
_run_agent_background ==
    /\ \E t \in 1..Len(val.agent_tasks) :
          /\ val.agent_tasks[t].pc = "added"
          /\ val' = [val EXCEPT !.agent_tasks[t].status = "running",
                                 !.agent_tasks[t].pc = "executor"]
    /\ UNCHANGED <<Gateway, arg>>

\* The status after the agent ran: except Exception covers the whole try.
outcome(raised) == IF raised THEN "failed" ELSE "completed"

\* steps_project_engine.run_agent returns or raises; the status is set and
\* the agent_result message handed to manager.send_to
run_in_executor ==
    /\ \E t \in 1..Len(val.agent_tasks), raised \in BOOLEAN :
          /\ val.agent_tasks[t].pc = "executor"
          /\ val' = [val EXCEPT !.agent_tasks[t].status = outcome(raised),
                                 !.agent_tasks[t].results = Append(@, outcome(raised)),
                                 !.agent_tasks[t].pc = "send_to"]
    /\ UNCHANGED <<Gateway, arg>>

\* A send_to that lets the exception of a send through.
send_to_raises_through == TRUE

\* send_to catches the exception of every send (except Exception), and
\* json.dumps takes what json.loads gave: the await never raises.
send_to_raises == FALSE

\* await manager.send_to(project_id, json.dumps(message)) is over: in the try
\* an exception goes to except Exception, which sets failed and sends again.
agent_result_sent ==
    /\ \E t \in 1..Len(val.agent_tasks) :
          /\ val.agent_tasks[t].pc = "send_to"
          /\ val' = IF send_to_raises /\ val.agent_tasks[t].status = "completed"
                    THEN [val EXCEPT !.agent_tasks[t].status = "failed",
                                     !.agent_tasks[t].results = Append(@, "failed")]
                    ELSE [val EXCEPT !.agent_tasks[t].pc = "done"]
    /\ UNCHANGED <<Gateway, arg>>

NextAgent == run_agent \/ _run_agent_background \/ run_in_executor \/ agent_result_sent

SpecAgent == InitAgent /\ [][NextAgent]_vars

\* The moves of a status the claim allows.
Moves == {<<"pending", "running">>, <<"running", "completed">>, <<"running", "failed">>}

\* C40: every task the endpoint creates is pending in the response; its
\* status then changes by pending -> running -> completed or pending ->
\* running -> failed only, a completed or failed one never again; and for
\* each task one agent_result is handed to the broadcast, no more, telling
\* the status the task ends with.
C40_TaskStatus ==
    /\ [](\A t \in 1..Len(val.agent_tasks) :
            LET task == val.agent_tasks[t]
            IN /\ task.response = "pending"
               /\ task.status \in TaskStatus
               /\ Len(task.results) <= 1
               /\ task.pc = "done" => task.results = <<task.status>>
               /\ task.status \in {"completed", "failed"} <=> task.results # <<>>)
    /\ [][\A t \in 1..Len(val.agent_tasks) :
            /\ val'.agent_tasks[t].status # val.agent_tasks[t].status =>
                  <<val.agent_tasks[t].status, val'.agent_tasks[t].status>> \in Moves
            /\ val'.agent_tasks[t].response = val.agent_tasks[t].response]_vars

\* One task has completed and another failed, each after its broadcast.
C40_Witness ==
    /\ Len(val.agent_tasks) >= 2
    /\ \E t, u \in 1..Len(val.agent_tasks) :
          /\ val.agent_tasks[t].pc = "done" /\ val.agent_tasks[t].status = "completed"
          /\ val.agent_tasks[u].pc = "done" /\ val.agent_tasks[u].status = "failed"

====
